---- MODULE Spec2Model ----
(***************************************************************************)
(* EV charger placement (demo.py, demo_numpy.py): scenario set-up, the     *)
(* iterative and the vectorized construction of the binary quadratic       *)
(* model, decoding of the solver's lowest-energy sample and the printed    *)
(* statistics.                                                             *)
(*                                                                         *)
(* Numbers.  Python floats are modelled as exact rationals.  Every         *)
(* coefficient of a model built for (num_poi, num_cs) is a multiple of     *)
(* 1/Scale(num_poi, num_cs), Scale = 30 * max(num_poi,1) * max(num_cs,1)   *)
(* (gamma2 = n/3, gamma3 = 1.7 n = 17n/10, the means divide by num_poi and *)
(* num_cs), so a coefficient v is stored as the integer v * Scale.         *)
(* Nodes are pairs <<x, y>>; Python lists are sequences; Python indices    *)
(* 0..n-1 are kept, so element i of a list l is l[i + 1].                  *)
(***************************************************************************)
EXTENDS Integers, Sequences, FiniteSets, TLC

VARIABLES pc, args, rng, G, pois, charging_stations, potential_new_cs_nodes,
          bqm, bqm_np, sampleset, new_charging_nodes, report, run2

vars == <<pc, args, rng, G, pois, charging_stations, potential_new_cs_nodes,
          bqm, bqm_np, sampleset, new_charging_nodes, report, run2>>

(* ------------------------------ bounds --------------------------------- *)
MaxW == 2
MaxH == 2
MaxPoi == 2
MaxCs == 2
MaxNew == 2
MaxSeed == 1
MaxRng == 6
MaxRot == 1
MaxReads == 2

(* ------------------------------ helpers -------------------------------- *)
Max(a, b) == IF a >= b THEN a ELSE b
Min(a, b) == IF a <= b THEN a ELSE b
Abs(a) == IF a >= 0 THEN a ELSE -a

RECURSIVE SetSum(_, _)
\* sum(f[e] for e in S)
SetSum(S, f) ==
    IF S = {} THEN 0
    ELSE LET e == CHOOSE e \in S : TRUE IN f[e] + SetSum(S \ {e}, f)

Range(s) == {s[t] : t \in 1..Len(s)}
NoDup(s) == \A a, b \in 1..Len(s) : a # b => s[a] # s[b]
RemoveAt(s, t) == [u \in 1..(Len(s) - 1) |-> IF u < t THEN s[u] ELSE s[u + 1]]
\* args.seed: <<>> when the option is absent (None), <<s>> when it is given.
None == <<>>

(* --------------------------- read_in_args ------------------------------ *)
\* random.seed(s): the generator's state becomes a fixed function of s.
SeedState(s) == (s * 5 + 1) % MaxRng

\* The state the generator has after `if (args.seed): random.seed(args.seed)`:
\* the seed is applied only when it is truthy, so None and 0 leave the
\* generator as the process start seeded it from the system's entropy.
AfterSeed(seed, entropy) ==
    IF seed # None /\ seed[1] # 0 THEN SeedState(seed[1]) ELSE entropy

\* The two checks of read_in_args that end the run with sys.exit(0).
ArgsValid(a) ==
    /\ ~(a.width < 0 \/ a.height < 0 \/ a.poi < 0 \/ a.chargers < 0
            \/ a.new_chargers < 0)
    /\ ~(a.poi > a.width * a.height
            \/ a.chargers + a.new_chargers > a.width * a.height)

ArgSpace ==
    [seed : {None} \cup {<<s>> : s \in 0..MaxSeed}, width : 1..MaxW, height : 1..MaxH,
     poi : 0..MaxPoi, chargers : 0..MaxCs, new_chargers : 0..MaxNew]

NoArgs ==
    [seed |-> None, width |-> 0, height |-> 0, poi |-> 0, chargers |-> 0,
     new_chargers |-> 0]

(* -------------------------- set_up_scenario ---------------------------- *)
\* list(nx.grid_2d_graph(w, h).nodes): (i, j) for i in range(w), j in range(h)
GridNodes(w, h) == [t \in 1..(w * h) |-> <<(t - 1) \div h, (t - 1) % h>>]

RECURSIVE SampleFrom(_, _, _, _)
\* random.sample(population, k): k draws without replacement, each a
\* deterministic function of the generator state r, which the draw advances.
SampleFrom(population, k, r, acc) ==
    IF k = 0 \/ Len(population) = 0 THEN [out |-> acc, rng |-> r]
    ELSE LET t == (r % Len(population)) + 1
         IN SampleFrom(RemoveAt(population, t), k - 1, r \div Len(population),
                       Append(acc, population[t]))

RandomSample(population, k, r) == SampleFrom(population, k, r, <<>>)

\* The elements of `nodes` outside `removed`, in grid order.
Without(nodes, removed) ==
    LET Kept(x) == x \notin removed IN SelectSeq(nodes, Kept)

Rotate(s, rot) ==
    [t \in 1..Len(s) |-> s[((t - 1 + rot) % Len(s)) + 1]]

\* The whole grid, the chargers not taken out.
CandidateListOfGrid(nodes, cs, rot) == Rotate(nodes, rot)

\* list(G.nodes() - charging_stations): a list of the set difference; the
\* order of a set's elements is the interpreter's, here any rotation `rot`
\* (at most MaxRot) of the grid order.
CandidateList(nodes, cs, rot) == Rotate(Without(nodes, Range(cs)), rot)

Rotations(nodes, cs) ==
    0..Min(MaxRot, Max(Len(nodes) - Cardinality(Range(cs)) - 1, 0))


(* ------------------------- dimod's model type -------------------------- *)
\* A BinaryQuadraticModel over the variables 0..n-1: a linear bias per
\* variable, a bias per stored interaction (a pair of variables) and an offset.
Scale(num_poi, num_cs) == 30 * Max(num_poi, 1) * Max(num_cs, 1)

\* dimod.BinaryQuadraticModel(n, 'BINARY'): n variables, all biases zero.
EmptyBqm(n) ==
    [status |-> "ok", linear |-> [i \in 0..(n - 1) |-> 0],
     quadratic |-> [e \in {} |-> 0], offset |-> 0]

\* The key an interaction of u and v is stored under: the one already there
\* (in either orientation), else (u, v).
KeyOf(q, u, v) == IF <<v, u>> \in DOMAIN q THEN <<v, u>> ELSE <<u, v>>

\* bqm.add_interaction(u, v, bias) for every (u, v) of the dict `biases`
\* (each pair of variables at most once in it): the bias is added to the
\* pair's, a pair not stored yet is stored.
AddInteractions(b, biases) ==
    LET q == b.quadratic
        keys == DOMAIN q \cup {KeyOf(q, e[1], e[2]) : e \in DOMAIN biases}
    IN [b EXCEPT !.quadratic =
            [e \in keys |->
                (IF e \in DOMAIN q THEN q[e] ELSE 0)
                    + (IF e \in DOMAIN biases THEN biases[e] ELSE 0)
                    + (IF <<e[2], e[1]>> \in DOMAIN biases
                       THEN biases[<<e[2], e[1]>>] ELSE 0)]]

\* for i in range(n): for j in range(i+1, n): the pairs (i, j) the two loops
\* visit (itertools.combinations(range(n), 2) yields the same pairs).
PairLoop(n) == {e \in (0..(n - 1)) \X (0..(n - 1)) : e[1] < e[2]}

\* The linear bias dimod.generators.combinations gives every variable.
CombinationsLinearBias(k, strength) == strength * (1 - 2 * k)

\* dimod.generators.combinations(variables, k, strength) over n variables:
\* strength * (sum_i x_i - k)^2 expanded for binary x.
Combinations(n, k, strength) ==
    AddInteractions(
        [EmptyBqm(n) EXCEPT
            !.linear = [i \in 0..(n - 1) |-> CombinationsLinearBias(k, strength)],
            !.offset = strength * (k * k)],
        [e \in PairLoop(n) |-> 2 * strength])

\* bqm.update(other): other's biases and offset are added to bqm's.
Update(b, other) ==
    AddInteractions(
        [b EXCEPT !.linear = [i \in DOMAIN b.linear |->
                                b.linear[i] + other.linear[i]],
                  !.offset = b.offset + other.offset],
        other.quadratic)

\* The bias of the interaction of u and v; an absent interaction has bias 0.
QuadBias(b, u, v) ==
    (IF <<u, v>> \in DOMAIN b.quadratic THEN b.quadratic[<<u, v>>] ELSE 0)
        + (IF <<v, u>> \in DOMAIN b.quadratic THEN b.quadratic[<<v, u>>] ELSE 0)

\* The samples over n variables, each a value 0 or 1 per variable.
Samples(n) == [0..(n - 1) -> {0, 1}]

\* The variables with value 1 in the sample x.
Ones(x) == {i \in DOMAIN x : x[i] = 1}

\* bqm.energy(x): the linear biases of the ones of x, the quadratic biases of
\* the pairs of ones, and the offset.
Energy(b, x) ==
    LET sel == Ones(x)
        selPairs == {e \in sel \X sel : e[1] < e[2]}
    IN SetSum(sel, [i \in sel |-> b.linear[i]])
        + SetSum(selPairs, [e \in selPairs |-> QuadBias(b, e[1], e[2])])
        + b.offset

(* --------------------------- demo.build_bqm ---------------------------- *)
\* The Manhattan distance, which the statistics report, in place of the
\* squared Euclidean one.
distanceManhattan(a, b) == Abs(a[1] - b[1]) + Abs(a[2] - b[2])

distance(a, b) ==
    (a[1] * a[1] - 2 * a[1] * b[1] + b[1] * b[1])
        + (a[2] * a[2] - 2 * a[2] * b[2] + b[2] * b[2])

\* sum(distance(cand_loc, loc) for loc in locs)
SumDistance(cand_loc, locs) ==
    SetSum(1..Len(locs), [t \in 1..Len(locs) |-> distance(cand_loc, locs[t])])

\* Constraint 1, one candidate: avg_dist * gamma1 with
\* avg_dist = sum(distance(cand_loc, loc) for loc in pois) / num_poi
\* and gamma1 = n * 4 (in units of 1/S).
PoiBias(cand_loc, poi_list, num_poi, n, S) ==
    ((SumDistance(cand_loc, poi_list) * S) \div num_poi) * (n * 4)

\* Constraint 2 with the sign dropped.
CsBiasNotNegated(cand_loc, cs_list, num_cs, n, S) ==
    (((SumDistance(cand_loc, cs_list) * S) \div num_cs) * n) \div 3

\* Constraint 2, one candidate: avg_dist * gamma2 with
\* avg_dist = -sum(distance(cand_loc, loc) for loc in charging_stations) / num_cs
\* and gamma2 = n / 3.
CsBias(cand_loc, cs_list, num_cs, n, S) ==
    ((((0 - SumDistance(cand_loc, cs_list)) * S) \div num_cs) * n) \div 3

\* Constraint 3, one pair: dist * gamma3 with dist = -distance(ai, aj) and
\* gamma3 = n * 1.7.
\* The distance of the pair weighted by gamma3 without the sign that makes
\* it a reward.
PairBiasNotNegated(ai, aj, n, S) == ((distance(ai, aj) * S) * (n * 17)) \div 10

PairBias(ai, aj, n, S) == (((0 - distance(ai, aj)) * S) * (n * 17)) \div 10

\* gamma4 = n ** 3
Gamma4(n, S) == (n * n * n) * S

\* The model at the points of build_bqm's construction: as created, after
\* each of Constraints 1 to 3, and after Constraint 4 (the one returned).
BuildBqmStages(nodes, num_poi, poi_list, num_cs, cs_list, num_new_cs) ==
    LET n == Len(nodes)
        S == Scale(num_poi, num_cs)
        b0 == EmptyBqm(n)
        \* Constraint 1: for i in range(n): bqm.linear[i] += avg_dist * gamma1
        b1 == IF num_poi > 0
              THEN [b0 EXCEPT !.linear = [i \in 0..(n - 1) |->
                        b0.linear[i]
                            + PoiBias(nodes[i + 1], poi_list, num_poi, n, S)]]
              ELSE b0
        \* Constraint 2: for i in range(n): bqm.linear[i] += avg_dist * gamma2
        b2 == IF num_cs > 0
              THEN [b1 EXCEPT !.linear = [i \in 0..(n - 1) |->
                        b1.linear[i]
                            + CsBias(nodes[i + 1], cs_list, num_cs, n, S)]]
              ELSE b1
        \* Constraint 3: bqm.add_interaction(i, j, dist * gamma3) for i < j
        b3 == IF num_new_cs > 1
              THEN AddInteractions(b2,
                    [e \in PairLoop(n) |->
                        PairBias(nodes[e[1] + 1], nodes[e[2] + 1], n, S)])
              ELSE b2
        \* Constraint 4: bqm.update(combinations(bqm.variables, num_new_cs,
        \* strength=gamma4))
    IN <<b0, b1, b2, b3, Update(b3, Combinations(n, num_new_cs, Gamma4(n, S)))>>

BuildBqm(nodes, num_poi, poi_list, num_cs, cs_list, num_new_cs) ==
    BuildBqmStages(nodes, num_poi, poi_list, num_cs, cs_list, num_new_cs)[5]

(* ------------------------ demo_numpy.build_bqm ------------------------- *)
Dot(a, b) == a[1] * b[1] + a[2] * b[2]
SqNorm(a) == a[1] * a[1] + a[2] * a[2]

\* np.matmul(A, B.T)*(-2.) + np.sum(np.square(B), axis=1)
\*     + np.sum(np.square(A), axis=1).reshape(-1,1)
\* for coordinate arrays A (rows) and B (columns): a len(A) x len(B) matrix.
CrossMatrix(A, B) ==
    [rows |-> Len(A), cols |-> Len(B),
     at |-> [e \in (0..(Len(A) - 1)) \X (0..(Len(B) - 1)) |->
                Dot(A[e[1] + 1], B[e[2] + 1]) * (0 - 2)
                    + SqNorm(B[e[2] + 1]) + SqNorm(A[e[1] + 1])]]

\* np.sum(M, axis=1)[r]
RowSum(M, r) ==
    SetSum(0..(M.cols - 1), [c \in 0..(M.cols - 1) |-> M.at[<<r, c>>]])

\* M * (num / den), elementwise
ScaleMatrix(M, num, den) ==
    [M EXCEPT !.at = [e \in DOMAIN M.at |-> (M.at[e] * num) \div den]]

\* M += c, elementwise
AddScalar(M, c) == [M EXCEPT !.at = [e \in DOMAIN M.at |-> M.at[e] + c]]

\* np.triu(M, k=1): the entries on and below the diagonal become 0.
Triu1(M) ==
    [M EXCEPT !.at = [e \in DOMAIN M.at |->
                        IF e[2] - e[1] >= 1 THEN M.at[e] ELSE 0]]

\* M.flatten(): row-major.
Flatten(M) ==
    [t \in 0..(M.rows * M.cols - 1) |-> M.at[<<t \div M.cols, t % M.cols>>]]

\* np.tile(np.arange(n), n)
QuadCol(n) == [t \in 0..(n * n - 1) |-> t % n]

\* The tiled array flattened row-major (flatten() without 'F').
QuadRowRowMajor(n) ==
    LET tiled == [e \in (0..(n - 1)) \X (0..(n - 1)) |-> e[2]]
    IN [t \in 0..(n * n - 1) |-> tiled[<<t \div n, t % n>>]]

\* np.tile(np.arange(n), (n,1)).flatten('F'): column-major flattening of the
\* n x n array whose rows are all arange(n).
QuadRow(n) ==
    LET tiled == [e \in (0..(n - 1)) \X (0..(n - 1)) |-> e[2]]
    IN [t \in 0..(n * n - 1) |-> tiled[<<t % n, t \div n>>]]

RECURSIVE KeptSeq(_, _, _)
\* The positions t >= from of flat with flat[t] != 0, increasing.
KeptSeq(flat, from, len) ==
    IF from >= len THEN <<>>
    ELSE IF flat[from] # 0 THEN <<from>> \o KeptSeq(flat, from + 1, len)
         ELSE KeptSeq(flat, from + 1, len)

\* An exception leaving build_bqm.
Raised(exception) == [status |-> exception]

\* dimod.BinaryQuadraticModel.from_numpy_vectors(linear, (q1, q2, q3), 0, BINARY)
FromNumpyVectors(linear, q1, q2, q3) ==
    AddInteractions(
        [EmptyBqm(Cardinality(DOMAIN linear)) EXCEPT !.linear = linear],
        [e \in {<<q1[t], q2[t]>> : t \in 1..Len(q3)} |->
            q3[CHOOSE t \in 1..Len(q3) : <<q1[t], q2[t]>> = e]])

\* The arrays build_bqm holds when it calls from_numpy_vectors (line 87), or
\* the exception raised before: linear, the two-dimensional dist_mat after
\* line 77, and the vectors q1, q2, q3.
BuildBqmNumpyVectors(nodes, num_poi, poi_list, num_cs, cs_list, num_new_cs) ==
    LET n == Len(nodes)
        S == Scale(num_poi, num_cs)
        zeros == [i \in 0..(n - 1) |-> 0]
        \* np.asarray([]) has shape (0,), and np.matmul of it with a (2, m)
        \* array raises ValueError
        matmulRaises == n = 0
        \* Constraint 1: linear += np.sum(ct_matrix, axis=1) / num_poi * gamma1
        ct_matrix == CrossMatrix(nodes, poi_list)
        lin1 == IF num_poi > 0
                THEN [i \in 0..(n - 1) |->
                        zeros[i] + ((RowSum(ct_matrix, i) * S) \div num_poi)
                                        * (n * 4)]
                ELSE zeros
        \* Constraint 2: dist_mat = ...; linear += -1 * np.sum(dist_mat, axis=1)
        \*     / num_cs * gamma2
        cs_mat == CrossMatrix(nodes, cs_list)
        lin2 == IF num_cs > 0
                THEN [i \in 0..(n - 1) |->
                        lin1[i] + ((((0 - 1) * RowSum(cs_mat, i) * S)
                                        \div num_cs) * n) \div 3]
                ELSE lin1
        \* Constraint 3: dist_mat = (pairwise squared distances) * -gamma3
        pair_mat == ScaleMatrix(CrossMatrix(nodes, nodes),
                                S * (0 - (n * 17)), 10)
        \* Constraint 4: linear += (1-2*num_new_cs)*gamma4
        lin4 == [i \in 0..(n - 1) |->
                    lin2[i] + (1 - 2 * num_new_cs) * Gamma4(n, S)]
        \* the array the name dist_mat is bound to at line 77: Constraint 3's
        \* when num_new_cs > 1, else the one Constraint 2 left (floats, in
        \* units of 1/S), else none
        bound == num_new_cs > 1 \/ num_cs > 0
        dist_mat == IF num_new_cs > 1 THEN pair_mat
                    ELSE ScaleMatrix(cs_mat, S, 1)
        \* dist_mat += 2*gamma4
        dist_mat77 == AddScalar(dist_mat, 2 * Gamma4(n, S))
        flat == Flatten(Triu1(dist_mat77))
        flatLen == dist_mat.rows * dist_mat.cols
        quad_col == QuadCol(n)
        quad_row == QuadRow(n)
        \* quad_col[dist_mat != 0]: a boolean index of another length than the
        \* indexed array raises IndexError
        kept == KeptSeq(flat, 0, flatLen)
        q1 == [t \in 1..Len(kept) |-> quad_row[kept[t]]]
        q2 == [t \in 1..Len(kept) |-> quad_col[kept[t]]]
        q3 == [t \in 1..Len(kept) |-> flat[kept[t]]]
        raised == IF (num_poi > 0 \/ num_cs > 0 \/ num_new_cs > 1)
                        /\ matmulRaises
                  THEN "ValueError"
                  ELSE IF ~bound THEN "UnboundLocalError"
                  ELSE IF flatLen # n * n THEN "IndexError"
                  ELSE "ok"
    IN IF raised # "ok"
       THEN [status |-> raised, linear |-> zeros, dist_mat |-> dist_mat,
             q1 |-> <<>>, q2 |-> <<>>, q3 |-> <<>>]
       ELSE [status |-> "ok", linear |-> lin4, dist_mat |-> dist_mat77,
             q1 |-> q1, q2 |-> q2, q3 |-> q3]

BuildBqmNumpy(nodes, num_poi, poi_list, num_cs, cs_list, num_new_cs) ==
    LET v == BuildBqmNumpyVectors(nodes, num_poi, poi_list, num_cs, cs_list,
                                  num_new_cs)
    IN IF v.status # "ok" THEN Raised(v.status)
       ELSE FromNumpyVectors(v.linear, v.q1, v.q2, v.q3)

(* ------------------ run_bqm_and_collect_solutions ---------------------- *)
\* What the sampler may return for a model over n variables: a sample set of
\* 1..MaxReads samples; the sampler reports each sample's energy under the
\* model it was given.
SampleSets(n) ==
    {ss \in SUBSET Samples(n) : Cardinality(ss) \in 1..MaxReads}

\* Any sample of the set, whatever its energy.
AnySample(b, ss) == ss

\* sampleset.first.sample: a sample of lowest energy (any one of them on a tie).
First(b, ss) ==
    {x \in ss : \A y \in ss : Energy(b, x) <= Energy(b, y)}

RECURSIVE CollectFrom(_, _, _)
\* [potential_new_cs_nodes[k] for k, v in ss.items() if v == 1], the sample
\* listing its variables in the model's order 0..n-1, from variable k on.
CollectFrom(nodes, ss, k) ==
    IF k >= Len(nodes) THEN <<>>
    ELSE IF ss[k] = 1 THEN <<nodes[k + 1]>> \o CollectFrom(nodes, ss, k + 1)
         ELSE CollectFrom(nodes, ss, k + 1)

Collect(nodes, ss) == CollectFrom(nodes, ss, 0)

(* -------------------- printout_solution_to_cmdline --------------------- *)
\* sum(abs(a - b) for a, b in zip(new, loc))
Manhattan(new, loc) == Abs(new[1] - loc[1]) + Abs(new[2] - loc[2])

\* poi_avg_dist: per new node, the sum over pois of Manhattan / num_poi, kept
\* as the numerator over num_poi.
PoiAvgDist(new_nodes, poi_list) ==
    [i \in 1..Len(new_nodes) |->
        SetSum(1..Len(poi_list),
               [t \in 1..Len(poi_list) |-> Manhattan(new_nodes[i], poi_list[t])])]

\* Whether the function's variable `loc` is bound after lines 204-209: the
\* loop `for loc in pois` binds it, to the last POI, when it runs at all.
LocBound(num_poi, poi_list) == num_poi > 0 /\ Len(poi_list) > 0

\* old_cs_avg_dist, line 212: for each new node
\*   sum(abs(a - b) for a, b in zip(new, loc) for loc in charging_stations) / num_cs
\* where the first iterable zip(new, loc) is evaluated once, outside the
\* generator, with the function's `loc`; each (a, b) is then counted once per
\* charging station.  Kept as the numerator over num_cs.
OldCsAvgDist(new_nodes, loc, cs_list) ==
    [i \in 1..Len(new_nodes) |->
        Abs(new_nodes[i][1] - loc[1]) * Len(cs_list)
            + Abs(new_nodes[i][2] - loc[2]) * Len(cs_list)]

\* new_cs_dist, lines 216-219: the pairs i < j < num_new_cs of the list.
NewCsDist(new_nodes, num_new_cs) ==
    LET pairs == PairLoop(num_new_cs)
    IN SetSum(pairs,
              [e \in pairs |->
                    Abs(new_nodes[e[1] + 1][1] - new_nodes[e[2] + 1][1])
                    + Abs(new_nodes[e[1] + 1][2] - new_nodes[e[2] + 1][2])])

\* Lines 217-219 index new_charging_nodes[i] and [j] for i < j < num_new_cs.
NewCsDistRaises(new_nodes, num_new_cs) ==
    \E e \in PairLoop(num_new_cs) :
        e[1] >= Len(new_nodes) \/ e[2] >= Len(new_nodes)

\* What the function printed (shown: which of the three statistics) and the
\* exception that ended it, if any.
PrintoutSolution(poi_list, num_poi, cs_list, num_cs, new_nodes, num_new_cs) ==
    LET r0 == [error |-> "none", shown |-> {}, poi_avg_dist |-> <<>>,
               old_cs_avg_dist |-> <<>>, new_cs_dist |-> 0]
        r1 == IF num_poi > 0
              THEN [r0 EXCEPT !.shown = @ \cup {"poi"},
                              !.poi_avg_dist = PoiAvgDist(new_nodes, poi_list)]
              ELSE r0
        oldRaises == ~LocBound(num_poi, poi_list) /\ Len(new_nodes) > 0
        r2 == IF num_cs > 0 /\ ~oldRaises
              THEN [r1 EXCEPT !.shown = @ \cup {"old"},
                              !.old_cs_avg_dist =
                                IF Len(new_nodes) = 0 THEN <<>>
                                ELSE OldCsAvgDist(new_nodes,
                                        poi_list[Len(poi_list)], cs_list)]
              ELSE r1
    IN IF num_cs > 0 /\ oldRaises THEN [r1 EXCEPT !.error = "NameError"]
       ELSE IF num_new_cs > 1 /\ NewCsDistRaises(new_nodes, num_new_cs)
            THEN [r2 EXCEPT !.error = "IndexError"]
       ELSE IF num_new_cs > 1
            THEN [r2 EXCEPT !.shown = @ \cup {"new"},
                            !.new_cs_dist = NewCsDist(new_nodes, num_new_cs)]
       ELSE r2

\* set_up_scenario's two samples, drawn in this order from the generator in
\* state r.
Scenario(w, h, num_poi, num_cs, r) ==
    LET nodes == GridNodes(w, h)
        p == RandomSample(nodes, num_poi, r)
        c == RandomSample(nodes, num_cs, p.rng)
    IN [G |-> nodes, pois |-> p.out, charging_stations |-> c.out,
        rng |-> c.rng]

NoBqm == [status |-> "unset"]
NoReport == [status |-> "unset"]
NoRun == [pc |-> "start", rng |-> 0, pois |-> <<>>, charging_stations |-> <<>>]

Init ==
    /\ pc = "start"
    /\ args = NoArgs
    /\ rng \in 0..(MaxRng - 1)
    /\ G = <<>>
    /\ pois = <<>>
    /\ charging_stations = <<>>
    /\ potential_new_cs_nodes = <<>>
    /\ bqm = NoBqm
    /\ bqm_np = NoBqm
    /\ sampleset = <<>>
    /\ new_charging_nodes = <<>>
    /\ report = NoReport
    /\ run2 = NoRun

ReadInArgs ==
    /\ pc = "start"
    /\ \E a \in ArgSpace :
        /\ args' = a
        /\ rng' = AfterSeed(a.seed, rng)
        /\ pc' = IF ArgsValid(a) THEN "args" ELSE "exit"
    /\ UNCHANGED <<G, pois, charging_stations, potential_new_cs_nodes, bqm,
                   bqm_np, sampleset, new_charging_nodes, report, run2>>

SetUpScenario ==
    /\ pc = "args"
    /\ LET sc == Scenario(args.width, args.height, args.poi, args.chargers,
                          rng)
       IN /\ G' = sc.G
          /\ pois' = sc.pois
          /\ charging_stations' = sc.charging_stations
          /\ rng' = sc.rng
          /\ \E rot \in Rotations(sc.G, sc.charging_stations) :
                potential_new_cs_nodes' =
                    CandidateList(sc.G, sc.charging_stations, rot)
    /\ pc' = "scenario"
    /\ UNCHANGED <<args, bqm, bqm_np, sampleset, new_charging_nodes, report,
                   run2>>

BuildBqmIterative ==
    /\ pc = "scenario"
    /\ bqm' = BuildBqm(potential_new_cs_nodes, args.poi, pois, args.chargers,
                       charging_stations, args.new_chargers)
    /\ pc' = "built"
    /\ UNCHANGED <<args, rng, G, pois, charging_stations,
                   potential_new_cs_nodes, bqm_np, sampleset,
                   new_charging_nodes, report, run2>>

BuildBqmVectorized ==
    /\ pc = "built"
    /\ bqm_np' = BuildBqmNumpy(potential_new_cs_nodes, args.poi, pois,
                               args.chargers, charging_stations,
                               args.new_chargers)
    /\ pc' = "built_np"
    /\ UNCHANGED <<args, rng, G, pois, charging_stations,
                   potential_new_cs_nodes, bqm, sampleset,
                   new_charging_nodes, report, run2>>

RunBqmAndCollectSolutions ==
    /\ pc = "built_np"
    /\ \E ss \in SampleSets(Len(potential_new_cs_nodes)) :
        /\ sampleset' = ss
        /\ \E first \in First(bqm, ss) :
                new_charging_nodes' = Collect(potential_new_cs_nodes, first)
    /\ pc' = "decoded"
    /\ UNCHANGED <<args, rng, G, pois, charging_stations,
                   potential_new_cs_nodes, bqm, bqm_np, report, run2>>

PrintoutSolutionToCmdline ==
    /\ pc = "decoded"
    /\ report' = PrintoutSolution(pois, args.poi, charging_stations,
                                  args.chargers, new_charging_nodes,
                                  args.new_chargers)
    /\ pc' = "printed"
    /\ UNCHANGED <<args, rng, G, pois, charging_stations,
                   potential_new_cs_nodes, bqm, bqm_np, sampleset,
                   new_charging_nodes, run2>>

\* The same command line run once more, to the end of set_up_scenario: a new
\* process, whose generator starts from the system's entropy.
SecondRun ==
    /\ pc = "scenario"
    /\ run2.pc = "start"
    /\ \E entropy \in 0..(MaxRng - 1) :
        LET sc == Scenario(args.width, args.height, args.poi, args.chargers,
                           AfterSeed(args.seed, entropy))
        IN run2' = [pc |-> "scenario", rng |-> sc.rng, pois |-> sc.pois,
                    charging_stations |-> sc.charging_stations]
    /\ UNCHANGED <<pc, args, rng, G, pois, charging_stations,
                   potential_new_cs_nodes, bqm, bqm_np, sampleset,
                   new_charging_nodes, report>>

Next ==
    \/ ReadInArgs
    \/ SetUpScenario
    \/ BuildBqmIterative
    \/ BuildBqmVectorized
    \/ RunBqmAndCollectSolutions
    \/ PrintoutSolutionToCmdline

Spec == Init /\ [][Next]_vars

\* test_close_to_pois (tests/test_integration.py, lines 70-75): the scenario
\* it fixes, and the POIs it puts in place of the sampled ones.
CloseToPoisArgs ==
    [seed |-> None, width |-> 15, height |-> 15, poi |-> 3, chargers |-> 0,
     new_chargers |-> 1]

CloseToPois == <<<<0, 0>>, <<6, 14>>, <<14, 0>>>>

InitCloseToPois ==
    /\ pc = "test_close_to_pois"
    /\ args = CloseToPoisArgs
    \* the POIs the entropy selects are replaced and no charger is drawn: one
    \* entropy value stands for all
    /\ rng = 0
    /\ G = <<>>
    /\ pois = <<>>
    /\ charging_stations = <<>>
    /\ potential_new_cs_nodes = <<>>
    /\ bqm = NoBqm
    /\ bqm_np = NoBqm
    /\ sampleset = <<>>
    /\ new_charging_nodes = <<>>
    /\ report = NoReport
    /\ run2 = NoRun

\* The test's set_up_scenario call followed by its `pois = [...]`.
TestCloseToPoisSetUp ==
    /\ pc = "test_close_to_pois"
    /\ LET sc == Scenario(args.width, args.height, args.poi, args.chargers,
                          rng)
       IN /\ G' = sc.G
          /\ pois' = CloseToPois
          /\ charging_stations' = sc.charging_stations
          /\ rng' = sc.rng
          /\ \E rot \in Rotations(sc.G, sc.charging_stations) :
                potential_new_cs_nodes' =
                    CandidateList(sc.G, sc.charging_stations, rot)
    /\ pc' = "scenario"
    /\ UNCHANGED <<args, bqm, bqm_np, sampleset, new_charging_nodes, report,
                   run2>>

\* test_solution_quality (tests/test_integration.py, lines 93-96): the
\* scenario it fixes; it keeps what set_up_scenario returns.
SolutionQualityArgs ==
    [seed |-> None, width |-> 15, height |-> 15, poi |-> 0, chargers |-> 0,
     new_chargers |-> 2]

InitSolutionQuality ==
    /\ pc = "test_solution_quality"
    /\ args = SolutionQualityArgs
    \* neither a POI nor a charger is drawn: one entropy value stands for all
    /\ rng = 0
    /\ G = <<>>
    /\ pois = <<>>
    /\ charging_stations = <<>>
    /\ potential_new_cs_nodes = <<>>
    /\ bqm = NoBqm
    /\ bqm_np = NoBqm
    /\ sampleset = <<>>
    /\ new_charging_nodes = <<>>
    /\ report = NoReport
    /\ run2 = NoRun

\* The test's set_up_scenario call.
TestSolutionQualitySetUp ==
    /\ pc = "test_solution_quality"
    /\ LET sc == Scenario(args.width, args.height, args.poi, args.chargers,
                          rng)
       IN /\ G' = sc.G
          /\ pois' = sc.pois
          /\ charging_stations' = sc.charging_stations
          /\ rng' = sc.rng
          /\ \E rot \in Rotations(sc.G, sc.charging_stations) :
                potential_new_cs_nodes' =
                    CandidateList(sc.G, sc.charging_stations, rot)
    /\ pc' = "scenario"
    /\ UNCHANGED <<args, bqm, bqm_np, sampleset, new_charging_nodes, report,
                   run2>>

\* The command-line scenarios and the tests', each to the built model.
NextBuild ==
    \/ ReadInArgs
    \/ SetUpScenario
    \/ TestCloseToPoisSetUp
    \/ TestSolutionQualitySetUp
    \/ BuildBqmIterative

SpecBuild ==
    (Init \/ InitCloseToPois \/ InitSolutionQuality) /\ [][NextBuild]_vars

\* Two runs of one command line, each to the end of set_up_scenario.
NextSeed == ReadInArgs \/ SetUpScenario \/ SecondRun

SpecSeed == Init /\ [][NextSeed]_vars

(* ------------------------------ claims --------------------------------- *)
Built == pc = "built"
NumCand == Len(potential_new_cs_nodes)

\* Squared Euclidean distance of two nodes.
dist2(a, b) == (a[1] - b[1]) * (a[1] - b[1]) + (a[2] - b[2]) * (a[2] - b[2])

\* Scale(p, c) times
\*   gamma1 * sum_i x_i mean_P dist2 - gamma2 * sum_i x_i mean_C dist2
\*     - gamma3 * sum_{i<j} x_i x_j dist2 + gamma4 * (sum_i x_i - k)^2
\* with gamma1 = 4n, gamma2 = n/3, gamma3 = 1.7n, gamma4 = n^3, each of the
\* first three terms present iff p > 0, c > 0, k > 1.
ObjectiveEnergy(x) ==
    LET N == potential_new_cs_nodes
        n == NumCand
        p == args.poi
        c == args.chargers
        k == args.new_chargers
        pp == Max(p, 1)
        cc == Max(c, 1)
        sel == Ones(x)
        m == Cardinality(sel)
        selPairs == {e \in sel \X sel : e[1] < e[2]}
        toPois == SetSum(sel, [i \in sel |->
                    SetSum(Range(pois), [q \in Range(pois) |-> dist2(N[i + 1], q)])])
        toCs == SetSum(sel, [i \in sel |->
                    SetSum(Range(charging_stations),
                           [q \in Range(charging_stations) |-> dist2(N[i + 1], q)])])
        spread == SetSum(selPairs, [e \in selPairs |->
                    dist2(N[e[1] + 1], N[e[2] + 1])])
    IN (IF p > 0 THEN 120 * n * cc * toPois ELSE 0)
        - (IF c > 0 THEN 10 * n * pp * toCs ELSE 0)
        - (IF k > 1 THEN 51 * n * pp * cc * spread ELSE 0)
        + 30 * pp * cc * n * n * n * (m - k) * (m - k)

\* C3: for every assignment x, the energy of the model the iterative
\* build_bqm returns is the four-term objective (POI attraction iff p > 0,
\* charger repulsion iff c > 0, mutual repulsion iff k > 1, gamma4 times
\* (sum x - k)^2).
C3_EnergyIsObjective ==
    Built => \A x \in Samples(NumCand) : Energy(bqm, x) = ObjectiveEnergy(x)

\* The two models agree: the vectorized builder returned a model, the linear
\* biases agree on every candidate index, the quadratic biases on every pair
\* i < j (an absent pair counting as 0), and the offsets once the iterative
\* model's offset is added to the vectorized one.
SameBqm ==
    /\ bqm_np.status = "ok"
    /\ DOMAIN bqm_np.linear = DOMAIN bqm.linear
    /\ \A i \in DOMAIN bqm.linear : bqm.linear[i] = bqm_np.linear[i]
    /\ \A i, j \in DOMAIN bqm.linear :
            i < j => QuadBias(bqm, i, j) = QuadBias(bqm_np, i, j)
    /\ bqm_np.offset + bqm.offset = bqm.offset

\* C1: on the same arguments of a valid scenario (p = 0, c = 0 and k <= 1
\* included) the iterative and the vectorized builder produce the same model.
C1_BuildersAgree == pc = "built_np" => SameBqm

\* The part of C1 with num_new_cs > 1.
C1_AgreeWhenSeveralNew == pc = "built_np" /\ args.new_chargers > 1 => SameBqm

\* A built model with all four terms present, and an assignment of two
\* candidates whose energy is the objective's value and is not 0.
C3_Witness ==
    /\ pc = "built"
    /\ args.poi > 0 /\ args.chargers > 0 /\ args.new_chargers > 1
    /\ NumCand >= 2
    /\ \E x \in Samples(NumCand) :
            /\ Cardinality(Ones(x)) = 2
            /\ Energy(bqm, x) = ObjectiveEnergy(x)
            /\ Energy(bqm, x) # 0

\* C2: with the built-in weights, an assignment whose number of ones differs
\* from k has strictly higher energy than the best assignment with exactly k
\* ones, so every minimizer of the model selects exactly k candidates.
C2_MinimizersSelectK ==
    Built =>
        \A x \in Samples(NumCand) :
            Cardinality(Ones(x)) # args.new_chargers =>
                \E y \in Samples(NumCand) :
                    /\ Cardinality(Ones(y)) = args.new_chargers
                    /\ Energy(bqm, y) < Energy(bqm, x)

Degenerate == args.poi = 0 \/ args.chargers = 0 \/ args.new_chargers <= 1

\* The model b is over all n candidates and, for k <= 1, every pair i < j
\* carries exactly the cardinality coefficient 2 * gamma4.
IntactModel(b) ==
    /\ b.status = "ok"
    /\ DOMAIN b.linear = 0..(NumCand - 1)
    /\ args.new_chargers <= 1 =>
            \A i, j \in 0..(NumCand - 1) :
                i < j => QuadBias(b, i, j)
                            = 2 * Gamma4(NumCand, Scale(args.poi, args.chargers))

\* C4: on a degenerate input (num_poi = 0, num_existing = 0 or num_new <= 1)
\* both builders return a model over all n candidates, the omitted term
\* contributing nothing and the others intact.
C4_DegenerateInputsBuild ==
    pc = "built_np" /\ Degenerate =>
        /\ IntactModel(bqm)
        /\ IntactModel(bqm_np)
        /\ \A x \in Samples(NumCand) :
                Energy(bqm, x) = ObjectiveEnergy(x)
                /\ Energy(bqm_np, x) + bqm.offset = ObjectiveEnergy(x)

\* The iterative builder's half of C4.
C4_IterativeHalf ==
    pc = "built_np" /\ Degenerate =>
        /\ IntactModel(bqm)
        /\ \A x \in Samples(NumCand) : Energy(bqm, x) = ObjectiveEnergy(x)

\* C5: set_up_scenario returns a grid of w*h distinct nodes, p distinct POIs
\* and c distinct chargers from the grid, and a candidate list that is
\* exactly the grid nodes not in C, without duplicates.
C5_ScenarioShape ==
    pc \in {"scenario", "built", "built_np", "decoded", "printed"} =>
        /\ Len(G) = args.width * args.height /\ NoDup(G)
        /\ \A t \in 1..Len(G) :
                /\ G[t][1] \in 0..(args.width - 1)
                /\ G[t][2] \in 0..(args.height - 1)
        /\ Len(pois) = args.poi /\ NoDup(pois) /\ Range(pois) \subseteq Range(G)
        /\ Len(charging_stations) = args.chargers /\ NoDup(charging_stations)
        /\ Range(charging_stations) \subseteq Range(G)
        /\ Range(potential_new_cs_nodes) = Range(G) \ Range(charging_stations)
        /\ NoDup(potential_new_cs_nodes)
        /\ Len(potential_new_cs_nodes) = args.width * args.height - args.chargers

\* A scenario with POIs and chargers in which a POI is also a charger.
C5_Witness ==
    /\ pc = "scenario"
    /\ args.poi = 2 /\ args.chargers = 2
    /\ Range(pois) \cap Range(charging_stations) # {}
    /\ Len(potential_new_cs_nodes) = 2

\* The i-th smallest (i from 1) element of a set of numbers.
Ranked(S, i) == CHOOSE e \in S : Cardinality({d \in S : d < e}) = i - 1

\* The candidates whose index has value 1 in x, each once, by increasing index.
SelectedOf(x) ==
    [t \in 1..Cardinality(Ones(x)) |->
        potential_new_cs_nodes[Ranked(Ones(x), t) + 1]]

\* C6: the decoder returns the candidates whose index has value 1 in a
\* lowest-energy sample of the returned set, each once and in increasing
\* index order, whatever the number of ones; every returned node is a
\* candidate and none an existing charger.
C6_DecodesLowestEnergy ==
    pc = "decoded" =>
        /\ \E x \in sampleset :
            /\ \A y \in sampleset : Energy(bqm, x) <= Energy(bqm, y)
            /\ new_charging_nodes = SelectedOf(x)
        /\ Range(new_charging_nodes) \subseteq Range(potential_new_cs_nodes)
        /\ Range(new_charging_nodes) \cap Range(charging_stations) = {}

\* A decoded sample set of two samples of different energy whose better one
\* selects two candidates although one was requested.
C6_Witness ==
    /\ pc = "decoded"
    /\ \E x, y \in sampleset : Energy(bqm, x) < Energy(bqm, y)
    /\ Len(new_charging_nodes) = 2
    /\ args.new_chargers = 1
    /\ args.chargers > 0

\* C7: with c > 0 the reported "average distance to old charging stations"
\* holds, for each selected node s, the mean Manhattan distance from s to the
\* existing chargers (here times c), whatever the POIs.
C7_OldCsAvgDistIsMean ==
    pc = "printed" /\ args.chargers > 0 =>
        /\ report.error # "NameError"
        /\ "old" \in report.shown =>
            /\ Len(report.old_cs_avg_dist) = Len(new_charging_nodes)
            /\ \A i \in 1..Len(new_charging_nodes) :
                report.old_cs_avg_dist[i] =
                    SetSum(Range(charging_stations),
                        [q \in Range(charging_stations) |->
                            Abs(new_charging_nodes[i][1] - q[1])
                                + Abs(new_charging_nodes[i][2] - q[2])])

\* C8: with k > 1 the reported "distance between new chargers" is the sum of
\* the Manhattan distances of all unordered pairs of selected nodes, whatever
\* the placement's length, and computing it raises no error.
C8_NewCsDistIsPairSum ==
    pc = "printed" /\ args.new_chargers > 1 =>
        /\ report.error # "IndexError"
        /\ "new" \in report.shown =>
            LET idx == 1..Len(new_charging_nodes)
                prs == {e \in idx \X idx : e[1] < e[2]}
            IN report.new_cs_dist =
                SetSum(prs, [e \in prs |->
                    Abs(new_charging_nodes[e[1]][1] - new_charging_nodes[e[2]][1])
                    + Abs(new_charging_nodes[e[1]][2] - new_charging_nodes[e[2]][2])])

\* C9: two runs given the same seed (any integer, 0 included) and the same
\* (w, h, p, c) produce the same POIs and the same existing chargers.
C9_SameSeedSameScenario ==
    pc = "scenario" /\ run2.pc = "scenario" /\ args.seed # None =>
        pois = run2.pois /\ charging_stations = run2.charging_stations

\* The part of C9 with a seed other than 0.
C9_NonZeroSeed ==
    pc = "scenario" /\ run2.pc = "scenario" /\ args.seed # None
            /\ args.seed # <<0>> =>
        pois = run2.pois /\ charging_stations = run2.charging_stations

\* The sample selecting candidate i alone.
OneHot(i) == [v \in 0..(NumCand - 1) |-> IF v = i THEN 1 ELSE 0]

\* The candidates whose lone selection has the lowest energy among the
\* assignments that select exactly one candidate.
BestSingles(b) ==
    LET e == [i \in 0..(NumCand - 1) |-> Energy(b, OneHot(i))]
    IN {i \in 0..(NumCand - 1) : \A j \in 0..(NumCand - 1) : e[i] <= e[j]}

\* p times the mean squared distance from candidate i to the POIs.
SqDistToPois(i) ==
    SetSum(1..Len(pois),
           [t \in 1..Len(pois) |-> dist2(potential_new_cs_nodes[i + 1], pois[t])])

\* p^2 times the squared distance from candidate i to the POI centroid.
SqDistToCentroid(i) ==
    LET p == Len(pois)
        sx == SetSum(1..p, [t \in 1..p |-> pois[t][1]])
        sy == SetSum(1..p, [t \in 1..p |-> pois[t][2]])
        c == potential_new_cs_nodes[i + 1]
    IN (p * c[1] - sx) * (p * c[1] - sx) + (p * c[2] - sy) * (p * c[2] - sy)

\* np.array(pois).mean(axis=0).round(): the centroid, each coordinate rounded
\* to the nearest integer (for three POIs no coordinate is a half).
RoundedCentroid ==
    LET p == Len(pois)
        sx == SetSum(1..p, [t \in 1..p |-> pois[t][1]])
        sy == SetSum(1..p, [t \in 1..p |-> pois[t][2]])
    IN <<(2 * sx + p) \div (2 * p), (2 * sy + p) \div (2 * p)>>

\* Sufficient for every lowest-energy assignment of b to select exactly one
\* candidate: no pair has a negative bias, clearing any one of two or more
\* selected candidates lowers the energy (its linear bias plus one pair bias
\* is positive, the other pair biases are not negative), and selecting none
\* is worse than some single selection.
SingleSelectionDominates(b) ==
    LET n == NumCand
        zero == [v \in 0..(n - 1) |-> 0]
    IN /\ \A e \in PairLoop(n) : QuadBias(b, e[1], e[2]) >= 0
       /\ \A e \in PairLoop(n) :
            /\ b.linear[e[1]] + QuadBias(b, e[1], e[2]) > 0
            /\ b.linear[e[2]] + QuadBias(b, e[1], e[2]) > 0
       /\ \E i \in 0..(n - 1) : Energy(b, OneHot(i)) < Energy(b, zero)

\* Every assignment that does not select exactly one candidate has a higher
\* energy than some single selection (by enumeration of the assignments).
SingleSelectionIsLowest(b) ==
    \A x \in Samples(NumCand) :
        Cardinality(Ones(x)) # 1 =>
            \E i \in 0..(NumCand - 1) : Energy(b, OneHot(i)) < Energy(b, x)

InCloseToPoisTest == args = CloseToPoisArgs /\ pois = CloseToPois

\* C10: for k = 1, c = 0 and p > 0 the lowest-energy assignments among those
\* selecting exactly one candidate select a candidate of least mean squared
\* distance to the POIs (a node nearest their centroid); in the scenario of
\* test_close_to_pois the lowest-energy assignment of the model selects
\* exactly one node, within 5 of the rounded centroid (7, 5) in each
\* coordinate.  On the command-line scenarios the second part is checked by
\* enumerating the assignments; on the 15 x 15 grid by the sufficient
\* condition SingleSelectionDominates, which the enumeration shows to imply
\* it wherever both are evaluated.
C10_SingleChargerNearCentroid ==
    pc = "built" /\ args.new_chargers = 1 /\ args.chargers = 0 /\ args.poi > 0 =>
        /\ \A i \in BestSingles(bqm) : \A j \in 0..(NumCand - 1) :
                /\ SqDistToPois(i) <= SqDistToPois(j)
                /\ SqDistToCentroid(i) <= SqDistToCentroid(j)
        /\ ~InCloseToPoisTest =>
                (SingleSelectionDominates(bqm) => SingleSelectionIsLowest(bqm))
        /\ InCloseToPoisTest =>
                /\ SingleSelectionDominates(bqm)
                /\ RoundedCentroid = <<7, 5>>
                /\ \A i \in BestSingles(bqm) :
                    /\ Abs(potential_new_cs_nodes[i + 1][1] - RoundedCentroid[1]) < 5
                    /\ Abs(potential_new_cs_nodes[i + 1][2] - RoundedCentroid[2]) < 5

\* The model of test_close_to_pois is built and its best single selection is
\* the node (7, 5).
C10_Witness ==
    /\ pc = "built"
    /\ InCloseToPoisTest
    /\ \E i \in BestSingles(bqm) : potential_new_cs_nodes[i + 1] = <<7, 5>>

\* A command-line scenario with k = 1, c = 0, p > 0 where the sufficient
\* condition holds and more than one candidate exists.
C10_SmallWitness ==
    /\ pc = "built"
    /\ ~InCloseToPoisTest
    /\ args.new_chargers = 1 /\ args.chargers = 0 /\ args.poi > 0
    /\ NumCand >= 3
    /\ SingleSelectionDominates(bqm)

\* The sample selecting the candidates i and j alone.
TwoHot(i, j) == [v \in 0..(NumCand - 1) |-> IF v = i \/ v = j THEN 1 ELSE 0]

\* The least and the greatest element of a non-empty set of numbers.
MinOf(S) == CHOOSE v \in S : \A w \in S : v <= w
MaxOf(S) == CHOOSE v \in S : \A w \in S : w <= v

\* The pairs i < j of candidates whose joint selection has the lowest energy
\* among the assignments that select exactly two candidates.
BestPairs(b) ==
    LET en == {<<Energy(b, TwoHot(e[1], e[2])), e>> : e \in PairLoop(NumCand)}
        least == MinOf({t[1] : t \in en})
    IN {t[2] : t \in {u \in en : u[1] = least}}

\* The squared distance of the candidates i and j.
CandDist2(i, j) ==
    dist2(potential_new_cs_nodes[i + 1], potential_new_cs_nodes[j + 1])

\* The pairs i < j of candidates of the largest squared distance.
FarthestPairs ==
    LET prs == PairLoop(NumCand)
        most == MaxOf({CandDist2(e[1], e[2]) : e \in prs})
    IN {e \in prs : CandDist2(e[1], e[2]) = most}

\* Sufficient for every lowest-energy assignment of b to select exactly two
\* candidates: no pair has a negative bias and clearing any one of three or
\* more selected candidates lowers the energy (its linear bias plus two pair
\* biases is positive, the other pair biases are not negative), and the
\* pair `best` has a lower energy than every single selection and than
\* selecting none.
PairSelectionDominates(b, best) ==
    LET n == NumCand
        zero == [v \in 0..(n - 1) |-> 0]
        qmin == MinOf({QuadBias(b, e[1], e[2]) : e \in PairLoop(n)})
        least == Energy(b, TwoHot(best[1], best[2]))
    IN /\ qmin >= 0
       /\ \A i \in 0..(n - 1) : (b.linear[i] + qmin) + qmin > 0
       /\ \A i \in 0..(n - 1) : least < Energy(b, OneHot(i))
       /\ least < Energy(b, zero)

\* Every assignment that does not select exactly two candidates has a higher
\* energy than some selection of two (by enumeration of the assignments).
PairSelectionIsLowest(b) ==
    \A x \in Samples(NumCand) :
        Cardinality(Ones(x)) # 2 =>
            \E e \in PairLoop(NumCand) :
                Energy(b, TwoHot(e[1], e[2])) < Energy(b, x)

InSolutionQualityTest == args = SolutionQualityArgs

\* C11: for p = 0, c = 0 and k = 2 the lowest-energy assignments among those
\* selecting exactly two candidates are exactly the pairs of candidates of
\* the largest squared distance; in the scenario of test_solution_quality
\* the lowest-energy assignment of the model selects exactly two nodes, and
\* their distance exceeds 10 (squared distance above 100).  On the
\* command-line scenarios the second part is checked by enumerating the
\* assignments; on the 15 x 15 grid by the sufficient condition
\* PairSelectionDominates, which the enumeration shows to imply it wherever
\* both are evaluated.
C11_TwoChargersSpread ==
    pc = "built" /\ args.new_chargers = 2 /\ args.chargers = 0 /\ args.poi = 0 =>
        LET best == BestPairs(bqm)
        IN /\ best = FarthestPairs
           /\ ~InSolutionQualityTest =>
                \A e \in best :
                    PairSelectionDominates(bqm, e) => PairSelectionIsLowest(bqm)
           /\ InSolutionQualityTest =>
                /\ \E e \in best : PairSelectionDominates(bqm, e)
                /\ \A e \in best : CandDist2(e[1], e[2]) > 100

\* The model of test_solution_quality is built and a best pair is the two
\* opposite corners (0, 0) and (14, 14).
C11_Witness ==
    /\ pc = "built"
    /\ InSolutionQualityTest
    /\ \E e \in BestPairs(bqm) :
            {potential_new_cs_nodes[e[1] + 1], potential_new_cs_nodes[e[2] + 1]}
                = {<<0, 0>>, <<14, 14>>}

\* A command-line scenario with p = 0, c = 0, k = 2 and pairs of different
\* distance, where the sufficient condition holds.
C11_SmallWitness ==
    /\ pc = "built"
    /\ ~InSolutionQualityTest
    /\ args.new_chargers = 2 /\ args.chargers = 0 /\ args.poi = 0
    /\ NumCand >= 4
    /\ FarthestPairs # PairLoop(NumCand)
    /\ \E e \in BestPairs(bqm) : PairSelectionDominates(bqm, e)

\* Every quadratic key (i, j) of b has 0 <= i < j < n, and no pair is stored
\* in both orientations.
KeysOrdered(b) ==
    \A e \in DOMAIN b.quadratic :
        /\ 0 <= e[1] /\ e[1] < e[2] /\ e[2] < NumCand
        /\ <<e[2], e[1]>> \notin DOMAIN b.quadratic

\* Scale(p, c) times -gamma3 * dist2(cand_i, cand_j), the mutual-repulsion
\* contribution to the pair (i, j).
RepulsionOf(i, j) ==
    0 - 51 * NumCand * Max(args.poi, 1) * Max(args.chargers, 1) * CandDist2(i, j)

\* Scale(p, c) times 2 * gamma4, the cardinality contribution to every pair.
CardinalityOfPair ==
    60 * Max(args.poi, 1) * Max(args.chargers, 1) * NumCand * NumCand * NumCand

\* C12: in the iterative builder's model at every point of construction and
\* in the result, and in the vectorized builder's model, every quadratic key
\* (i, j) has 0 <= i < j < n, no pair reversed or twice; with k > 1 the
\* mutual-repulsion and the cardinality contribution to a pair are added
\* (final coefficient -gamma3 * dist2 + 2 * gamma4); and the vectorized
\* builder's q1, q2 pair each kept coefficient q3 with the (i, j) of the
\* matrix entry it was computed for.
C12_QuadraticKeysAccumulate ==
    pc = "built_np" =>
        LET n == NumCand
            k == args.new_chargers
            st == BuildBqmStages(potential_new_cs_nodes, args.poi, pois,
                                 args.chargers, charging_stations, k)
            v == BuildBqmNumpyVectors(potential_new_cs_nodes, args.poi, pois,
                                      args.chargers, charging_stations, k)
        IN /\ st[5] = bqm
           /\ \A t \in 1..5 : KeysOrdered(st[t])
           /\ k > 1 =>
                \A e \in PairLoop(n) :
                    /\ e \in DOMAIN st[4].quadratic
                    /\ st[4].quadratic[e] = RepulsionOf(e[1], e[2])
                    /\ e \in DOMAIN bqm.quadratic
                    /\ bqm.quadratic[e]
                            = RepulsionOf(e[1], e[2]) + CardinalityOfPair
           /\ bqm_np.status = "ok" =>
                /\ v.status = "ok"
                /\ KeysOrdered(bqm_np)
                /\ Len(v.q1) = Len(v.q3) /\ Len(v.q2) = Len(v.q3)
                /\ \A t \in 1..Len(v.q3) :
                        /\ 0 <= v.q1[t] /\ v.q1[t] < v.q2[t] /\ v.q2[t] < n
                        /\ v.q3[t] = v.dist_mat.at[<<v.q1[t], v.q2[t]>>]
                        /\ bqm_np.quadratic[<<v.q1[t], v.q2[t]>>] = v.q3[t]
                        /\ \A u \in 1..Len(v.q3) :
                                u # t => <<v.q1[u], v.q2[u]>> # <<v.q1[t], v.q2[t]>>
                /\ k > 1 =>
                        \A e \in PairLoop(n) :
                            QuadBias(bqm_np, e[1], e[2])
                                = RepulsionOf(e[1], e[2]) + CardinalityOfPair

\* Both builders returned a model for k > 1 over at least three candidates
\* whose pairs differ in distance, with POIs and chargers present.
C12_Witness ==
    /\ pc = "built_np"
    /\ args.new_chargers > 1 /\ args.poi > 0 /\ args.chargers > 0
    /\ bqm_np.status = "ok"
    /\ NumCand >= 3
    /\ DOMAIN bqm_np.quadratic = PairLoop(NumCand)
    /\ \E e, f \in PairLoop(NumCand) : bqm.quadratic[e] # bqm.quadratic[f]

====
